---- MODULE Spec2Model ----
(***************************************************************************)
(* Model of the noise-filtering simulation study notebook                  *)
(* (Vlad/20250226_Noice Sim (No correlation)_V0.ipynb):                    *)
(*   simulate_data, align_labels, calculate_bac and the two grid searches  *)
(*   run_jump_model_grid_search / run_sparse_jump_model_grid_search.       *)
(*                                                                         *)
(* Balanced accuracies are exact fractions <<num, den>> in lowest terms.   *)
(* Python exceptions are values: a call returns [err |-> name, val |-> v], *)
(* with err = "none" for a normal return.                                  *)
(***************************************************************************)
EXTENDS Integers, Sequences, FiniteSets

\* ------------------------------------------------------------------ bounds
\* longest label sequence handed to align_labels / calculate_bac
MaxLen == 2
\* largest label identifier in those sequences
MaxLabel == 1
\* number of penalties in the dense grid (stands for the 14 of lambda_values)
NumLambdaValues == 3
\* sparse grid: number of penalties (for the 7 of lambdas) and of sparsity
\* levels (for the 14 of kappas)
NumLambdas == 2
NumKappas == 2
\* simulate_data: largest T, largest P (above the 15 informative features)
\* and largest integer seed
MaxT == 2
MaxP == 16
MaxSeed == 1

\* ------------------------------------------------------- program constants
\* n_components=2: the models label every observation 0 or 1
NComponents == 2
\* "only first 15 are informative"
InformativeFeatures == 15

VARIABLES
    pc,            \* position of the modelled call
    true_labels,   \* align_labels / calculate_bac: first argument
    pred_labels,   \* align_labels / calculate_bac: second argument
    aligned,       \* what align_labels returned (or raised)
    bac,           \* what calculate_bac returned (or raised)
    search,        \* grid search: "dense" (JumpModel) or "sparse" (SparseJumpModel)
    true_states,   \* grid search: the true hidden state sequence
    fit_pool,      \* the label sequences the external model produces on this X
    lam_i,         \* grid search: index of lam in the penalty grid
    kappa_i,       \* sparse grid search: index of kappa in kappas
    best_bac,      \* grid search: best_bac
    best_labels,   \* grid search: best_labels
    evaluated,     \* history: the grid points scored so far, in the order scored
    result,        \* what the grid search returned (or raised)
    T,             \* simulate_data: number of observations
    P,             \* simulate_data: number of features
    mu,            \* simulate_data: signal magnitude
    random_state,  \* simulate_data: the seed
    rng_pos,       \* simulate_data: draws taken from rng so far
    states,        \* simulate_data: states[0..t-1] generated so far
    means,         \* simulate_data: the 2 x P array of state means
    X,             \* simulate_data: the rows X[0..t-1] generated so far
    global_draws,  \* draws other code has taken from numpy's global random state
    first_call,    \* what an earlier simulate_data call with these arguments returned
    order,         \* the grid points in the order in which the loops visit them
    cfg_i,         \* __main__: index of the (mu, P) configuration
    sim,           \* __main__: the loop variable sim
    hmm_bac_list,  \* __main__: hmm_bac_list
    jump_bac_list, \* __main__: jump_bac_list
    sparse_bac_list, \* __main__: sparse_bac_list
    final_rows     \* __main__: final_rows

alignVars == <<true_labels, pred_labels, aligned, bac>>
gridVars == <<search, true_states, fit_pool, lam_i, kappa_i, best_bac, best_labels,
              evaluated, result>>
simVars == <<T, P, mu, random_state, rng_pos, states, means, X>>
repeatVars == <<global_draws, first_call>>
orderVars == <<order>>
mainVars == <<cfg_i, sim, hmm_bac_list, jump_bac_list, sparse_bac_list, final_rows>>
moreVars == <<repeatVars, orderVars, mainVars>>
vars == <<pc, alignVars, gridVars, simVars, moreVars>>

\* ------------------------------------------------------------- arithmetic
Abs(x) == IF x < 0 THEN -x ELSE x

RECURSIVE GCD(_, _)
GCD(a, b) == IF b = 0 THEN a ELSE GCD(b, a % b)

\* a fraction in lowest terms with a positive denominator
Frac(n, d) ==
    LET g == GCD(Abs(n), Abs(d))
    IN  IF d < 0 THEN <<(-n) \div g, (-d) \div g>> ELSE <<n \div g, d \div g>>

FracAdd(a, b) == Frac(a[1] * b[2] + b[1] * a[2], a[2] * b[2])
FracDivInt(a, k) == Frac(a[1], a[2] * k)
\* Python's a > b on two scores
FracGreater(a, b) == a[1] * b[2] > b[1] * a[2]
FracGeq(a, b) == a[1] * b[2] >= b[1] * a[2]

Ok(v) == [err |-> "none", val |-> v]
Raise(e) == [err |-> e, val |-> <<>>]

\* the values of a sequence
Range(s) == {s[k] : k \in DOMAIN s}

\* np.unique / sorted(): the elements of a finite set of integers, ascending,
\* as a function on 0..n-1
RECURSIVE SortedSeq(_)
SortedSeq(S) ==
    IF S = {} THEN <<>>
    ELSE LET m == CHOOSE x \in S : \A y \in S : x <= y
         IN  <<m>> \o SortedSeq(S \ {m})

Sorted0(S) == LET s == SortedSeq(S) IN [i \in 0..(Len(s) - 1) |-> s[i + 1]]

\* ------------------------------------------- sklearn.metrics.confusion_matrix
\* (a variant of confusion_matrix: the lengths are not compared and the
\* positions are paired up to the shorter sequence, as zip would)
confusion_matrix_unchecked(y_true, y_pred) ==
    LET labels == Sorted0(Range(y_true) \cup Range(y_pred))
        n == Cardinality(DOMAIN labels)
    IN  Ok([i \in 0..(n - 1) |-> [j \in 0..(n - 1) |->
              Cardinality({k \in DOMAIN y_true \cap DOMAIN y_pred :
                              y_true[k] = labels[i] /\ y_pred[k] = labels[j]})]])

\* confusion_matrix(y_true, y_pred) with labels=None: inconsistent lengths
\* raise ValueError; otherwise the label list is the sorted union of the two
\* sequences' values and cell [i][j] counts the positions whose true label is
\* the i-th and whose predicted label is the j-th of that list.
confusion_matrix(y_true, y_pred) ==
    IF Len(y_true) # Len(y_pred) THEN Raise("ValueError")
    ELSE LET labels == Sorted0(Range(y_true) \cup Range(y_pred))
             n == Cardinality(DOMAIN labels)
         IN  Ok([i \in 0..(n - 1) |-> [j \in 0..(n - 1) |->
                   Cardinality({k \in DOMAIN y_true :
                                   y_true[k] = labels[i] /\ y_pred[k] = labels[j]})]])

Negate(D) == [i \in DOMAIN D |-> [j \in DOMAIN D[i] |-> -D[i][j]]]

\* ------------------------------------- scipy.optimize.linear_sum_assignment
\* The shortest-augmenting-path solver behind linear_sum_assignment, on a
\* square integer cost matrix (rows and columns 0..n-1).  The solver state s
\* is [u, v, path, col4row, row4col]; an unassigned row or column holds -1.
\* The search state a of one augmenting path is
\*   [i, minVal, remaining, spc, path, SR, SC, sink]
\* where remaining is the list of unscanned columns and spc (the shortest
\* path costs) is defined on the columns reached so far: a column outside
\* DOMAIN spc stands for an infinite cost.

\* remaining[index] = remaining[--num_remaining]
RemoveAt(rem, index) ==
    LET m == Len(rem)
    IN  IF index = m THEN SubSeq(rem, 1, m - 1)
        ELSE [SubSeq(rem, 1, m - 1) EXCEPT ![index] = rem[m]]

\* the for-loop over the remaining columns: relaxes each column from row a.i
\* and picks the column of lowest cost, preferring among equal costs one that
\* is still unassigned (a new sink).  sc = [spc, path, lowest, index], with
\* index = 0 while nothing is picked.
RECURSIVE ScanRemaining(_, _, _, _, _)
ScanRemaining(cost, s, a, it, sc) ==
    IF it > Len(a.remaining) THEN sc
    ELSE LET j == a.remaining[it]
             r == a.minVal + cost[a.i][j] - s.u[a.i] - s.v[j]
             shorter == j \notin DOMAIN sc.spc \/ r < sc.spc[j]
             spc1 == IF shorter THEN [c \in DOMAIN sc.spc \cup {j} |->
                                         IF c = j THEN r ELSE sc.spc[c]]
                     ELSE sc.spc
             path1 == IF shorter THEN [sc.path EXCEPT ![j] = a.i] ELSE sc.path
             pick == \/ sc.index = 0
                     \/ spc1[j] < sc.lowest
                     \/ spc1[j] = sc.lowest /\ s.row4col[j] = -1
         IN  ScanRemaining(cost, s, a, it + 1,
                 [spc |-> spc1, path |-> path1,
                  lowest |-> IF pick THEN spc1[j] ELSE sc.lowest,
                  index |-> IF pick THEN it ELSE sc.index])

\* the while-loop of augmenting_path: grows the alternating tree from row
\* a.i until an unassigned column (the sink) is reached
RECURSIVE AugmentingPath(_, _, _)
AugmentingPath(cost, s, a) ==
    IF a.sink # -1 THEN a
    ELSE LET sc == ScanRemaining(cost, s, a, 1,
                       [spc |-> a.spc, path |-> a.path, lowest |-> 0, index |-> 0])
             j == a.remaining[sc.index]
             free == s.row4col[j] = -1
         IN  AugmentingPath(cost, s,
                 [i |-> IF free THEN a.i ELSE s.row4col[j],
                  minVal |-> sc.lowest,
                  remaining |-> RemoveAt(a.remaining, sc.index),
                  spc |-> sc.spc,
                  path |-> sc.path,
                  SR |-> a.SR \cup {a.i},
                  SC |-> a.SC \cup {j},
                  sink |-> IF free THEN j ELSE -1])

\* "augment previous solution": walks the path back from the sink to curRow,
\* re-assigning each column on it.  m = [col4row, row4col].
RECURSIVE Augment(_, _, _, _)
Augment(path, curRow, j, m) ==
    LET i == path[j]
        m1 == [col4row |-> [m.col4row EXCEPT ![i] = j],
               row4col |-> [m.row4col EXCEPT ![j] = i]]
    IN  IF i = curRow THEN m1 ELSE Augment(path, curRow, m.col4row[i], m1)

\* the for-loop over curRow of solve(): one augmenting path per row, then the
\* dual update, then the augmentation
RECURSIVE SolveRows(_, _, _, _)
SolveRows(cost, n, curRow, s) ==
    IF curRow >= n THEN s
    ELSE LET a == AugmentingPath(cost, s,
                     [i |-> curRow, minVal |-> 0,
                      remaining |-> [it \in 1..n |-> n - it],
                      spc |-> <<>>, path |-> s.path,
                      SR |-> {}, SC |-> {}, sink |-> -1])
             u1 == [i \in 0..(n - 1) |->
                       IF i = curRow THEN s.u[i] + a.minVal
                       ELSE IF i \in a.SR
                            THEN s.u[i] + a.minVal - a.spc[s.col4row[i]]
                            ELSE s.u[i]]
             v1 == [j \in 0..(n - 1) |->
                       IF j \in a.SC THEN s.v[j] - (a.minVal - a.spc[j])
                       ELSE s.v[j]]
             m == Augment(a.path, curRow, a.sink,
                          [col4row |-> s.col4row, row4col |-> s.row4col])
         IN  SolveRows(cost, n, curRow + 1,
                 [u |-> u1, v |-> v1, path |-> a.path,
                  col4row |-> m.col4row, row4col |-> m.row4col])

\* linear_sum_assignment(cost) on a square matrix: row_ind is 0..n-1 and
\* col_ind[i] the column assigned to row i; the model returns col_ind.
linear_sum_assignment(cost) ==
    LET n == Cardinality(DOMAIN cost)
        s0 == [u |-> [i \in 0..(n - 1) |-> 0], v |-> [j \in 0..(n - 1) |-> 0],
               path |-> [j \in 0..(n - 1) |-> -1],
               col4row |-> [i \in 0..(n - 1) |-> -1],
               row4col |-> [j \in 0..(n - 1) |-> -1]]
    IN  SolveRows(cost, n, 0, s0).col4row

\* --------------------------------------------------------------- align_labels
\* mapping = {col: row for row, col in zip(row_ind, col_ind)}
Mapping(col_ind) ==
    [col \in Range(col_ind) |-> CHOOSE row \in DOMAIN col_ind : col_ind[row] = col]

\* aligned = np.array([mapping[x] for x in pred_labels]): a label that is no
\* key of the dict raises KeyError
Remap(mapping, pred) ==
    IF \E k \in DOMAIN pred : pred[k] \notin DOMAIN mapping THEN Raise("KeyError")
    ELSE Ok([k \in DOMAIN pred |-> mapping[pred[k]]])

align_labels(true, pred) ==
    LET D == confusion_matrix(true, pred)
    IN  IF D.err # "none" THEN D
        ELSE Remap(Mapping(linear_sum_assignment(Negate(D.val))), pred)

\* -------------------------------------- sklearn.metrics.balanced_accuracy_score
\* per-class recall diag(C) / C.sum(axis=1), the classes with no true instance
\* (0/0) dropped, then the mean
Recall(y_true, y_pred, c) ==
    Frac(Cardinality({k \in DOMAIN y_true : y_true[k] = c /\ y_pred[k] = c}),
         Cardinality({k \in DOMAIN y_true : y_true[k] = c}))

RECURSIVE SumRecall(_, _, _)
SumRecall(y_true, y_pred, classes) ==
    IF classes = {} THEN <<0, 1>>
    ELSE LET c == CHOOSE x \in classes : TRUE
         IN  FracAdd(Recall(y_true, y_pred, c),
                     SumRecall(y_true, y_pred, classes \ {c}))

balanced_accuracy_score(y_true, y_pred) ==
    LET present == Range(y_true)
    IN  FracDivInt(SumRecall(y_true, y_pred, present), Cardinality(present))

\* -------------------------------------------------------------- calculate_bac
calculate_bac(true, pred) ==
    LET aligned_pred == align_labels(true, pred)
    IN  IF aligned_pred.err # "none" THEN aligned_pred
        ELSE Ok(balanced_accuracy_score(true, aligned_pred.val))

NoResult == Raise("not called")
\* Python's None
None == <<"None">>

\* the variables of the grid search while no grid search runs
GridIdle ==
    /\ search = "none"
    /\ true_states = <<>>
    /\ fit_pool = {}
    /\ lam_i = 0
    /\ kappa_i = 0
    /\ best_bac = <<0, 1>>
    /\ best_labels = None
    /\ evaluated = <<>>
    /\ result = NoResult

\* the variables of simulate_data while it is not called
SimIdle ==
    /\ T = 0
    /\ P = 0
    /\ mu = 0
    /\ random_state = 0
    /\ rng_pos = 0
    /\ states = <<>>
    /\ means = <<>>
    /\ X = <<>>

\* the variables of the evaluator's own specification while it is not used
AlignIdle ==
    /\ true_labels = <<>>
    /\ pred_labels = <<>>
    /\ aligned = NoResult
    /\ bac = NoResult

\* the variables of the repeated call, of the ordered search and of the
\* experiment loop while they are not used
RepeatIdle ==
    /\ global_draws = 0
    /\ first_call = NoResult

OrderIdle == order = <<>>

MainIdle ==
    /\ cfg_i = 0
    /\ sim = 0
    /\ hmm_bac_list = <<>>
    /\ jump_bac_list = <<>>
    /\ sparse_bac_list = <<>>
    /\ final_rows = <<>>

MoreIdle == RepeatIdle /\ OrderIdle /\ MainIdle

\* ---------------------------------------------- the evaluator called directly
Labels == 0..MaxLabel
LabelSeqs == UNION {[1..n -> Labels] : n \in 0..MaxLen}

InitAlign ==
    /\ pc = "ready"
    /\ true_labels \in LabelSeqs
    /\ pred_labels \in LabelSeqs
    /\ ~(true_labels = <<>> /\ pred_labels = <<>>)
    /\ aligned = NoResult
    /\ bac = NoResult
    /\ GridIdle
    /\ SimIdle
    /\ MoreIdle

CallAlign ==
    /\ pc = "ready"
    /\ aligned' = align_labels(true_labels, pred_labels)
    /\ pc' = "aligned"
    /\ UNCHANGED <<true_labels, pred_labels, bac, gridVars, simVars, moreVars>>

CallBac ==
    /\ pc = "ready"
    /\ bac' = calculate_bac(true_labels, pred_labels)
    /\ pc' = "scored"
    /\ UNCHANGED <<true_labels, pred_labels, aligned, gridVars, simVars, moreVars>>

NextAlign == CallAlign \/ CallBac

SpecAlign == InitAlign /\ [][NextAlign]_vars

\* ------------------------------------------------------------- grid searches
States == 0..(NComponents - 1)
StateSeqs == [1..MaxLen -> States]

\* (a variant of InitialBest: the sentinel is a score that can occur)
InitialBestAttainable == <<1, 1>>

\* best_bac = -1
InitialBest == <<-1, 1>>

\* The label sequences an external model may hold after fitting X, for the
\* true sequence t: the true sequence itself, the true sequence with the two
\* labels exchanged, and a sequence that stays in the single state c.
Flip(t) == [k \in DOMAIN t |-> 1 - t[k]]
Const(t, c) == [k \in DOMAIN t |-> c]
Pool(t, c) == {t, Flip(t), Const(t, c)}

\* model.fit(X); labels = model.labels_ : the external model either fails to
\* fit or holds one of the label sequences it can produce on this X
FitOutcomes == {Raise("ModelFitError")} \cup {Ok(l) : l \in fit_pool}

\* (a variant of IsBetter: the comparison written >=)
IsBetterOrEqual(b, best) == FracGeq(b, best)

\* if bac > best_bac:
IsBetter(b, best) == FracGreater(b, best)

\* (a variant of Retain: only the sentinel is replaced, the first point stays)
RetainFirst(labels, b, cur_labels, cur_bac) ==
    IF cur_bac[1] < 0 THEN <<labels, b>> ELSE <<cur_labels, cur_bac>>

\* (a variant of Retain: the comparison dropped, every point replaces the best)
RetainLatest(labels, b, cur_labels, cur_bac) == <<labels, b>>

\* if bac > best_bac: best_bac = bac; best_labels = labels
\* (as <<best_labels, best_bac>>)
Retain(labels, b, cur_labels, cur_bac) ==
    IF IsBetter(b, cur_bac) THEN <<labels, b>> ELSE <<cur_labels, cur_bac>>

\* (a variant of LoopBody: a failed fit is skipped and the loop goes on)
LoopBodySkipping(outcome, point, next_lam, next_kappa) ==
    \E b \in {IF outcome.err = "none" THEN calculate_bac(true_states, outcome.val)
                ELSE outcome} :
        IF b.err = "ModelFitError"
        THEN /\ lam_i' = next_lam
             /\ kappa_i' = next_kappa
             /\ UNCHANGED <<pc, result, best_bac, best_labels, evaluated>>
        ELSE IF b.err # "none"
        THEN /\ pc' = "raised"
             /\ result' = b
             /\ UNCHANGED <<lam_i, kappa_i, best_bac, best_labels, evaluated>>
        ELSE LET kept == IF FracGreater(b.val, best_bac) THEN <<outcome.val, b.val>>
                         ELSE <<best_labels, best_bac>>
             IN  /\ best_labels' = kept[1]
                 /\ best_bac' = kept[2]
                 /\ evaluated' = Append(evaluated,
                        [point |-> point, labels |-> outcome.val, bac |-> b.val])
                 /\ lam_i' = next_lam
                 /\ kappa_i' = next_kappa
                 /\ UNCHANGED <<pc, result>>

\* the loop body on the outcome of model.fit at grid point `point`; next_lam
\* and next_kappa are the loop variables of the following pass.  An exception
\* of fit or of calculate_bac is caught nowhere and ends the search.  (b, the
\* value of calculate_bac, is bound by \E so that it is computed once.)
LoopBody(outcome, point, next_lam, next_kappa) ==
    \E b \in {IF outcome.err = "none" THEN calculate_bac(true_states, outcome.val)
                ELSE outcome} :
        IF b.err # "none"
        THEN /\ pc' = "raised"
             /\ result' = b
             /\ UNCHANGED <<lam_i, kappa_i, best_bac, best_labels, evaluated>>
        ELSE LET kept == Retain(outcome.val, b.val, best_labels, best_bac)
             IN  /\ best_labels' = kept[1]
                 /\ best_bac' = kept[2]
                 /\ evaluated' = Append(evaluated,
                        [point |-> point, labels |-> outcome.val, bac |-> b.val])
                 /\ lam_i' = next_lam
                 /\ kappa_i' = next_kappa
                 /\ UNCHANGED <<pc, result>>

\* sparse search: the loop variables after the pass at (l, k):
\* for lam in lambdas: for kappa in kappas
NextSparsePoint(l, k) ==
    IF k + 1 < NumKappas THEN <<l, k + 1>> ELSE <<l + 1, 0>>

InitGrid ==
    /\ pc = "loop"
    /\ search \in {"dense", "sparse"}
    /\ true_states \in StateSeqs
    /\ fit_pool \in {Pool(true_states, c) : c \in States}
    /\ lam_i = 0
    /\ kappa_i = 0
    /\ best_bac = InitialBest
    /\ best_labels = None
    /\ evaluated = <<>>
    /\ result = NoResult
    /\ AlignIdle
    /\ SimIdle
    /\ MoreIdle

\* run_jump_model_grid_search: one pass of `for lam in lambda_values`
DenseIteration ==
    /\ pc = "loop"
    /\ search = "dense"
    /\ lam_i < NumLambdaValues
    /\ \E outcome \in FitOutcomes : LoopBody(outcome, <<lam_i, 0>>, lam_i + 1, 0)
    /\ UNCHANGED <<search, true_states, fit_pool, alignVars, simVars, moreVars>>

\* run_sparse_jump_model_grid_search: one pass of the inner loop
SparseIteration ==
    /\ pc = "loop"
    /\ search = "sparse"
    /\ lam_i < NumLambdas
    /\ LET nxt == NextSparsePoint(lam_i, kappa_i)
       IN  \E outcome \in FitOutcomes :
               LoopBody(outcome, <<lam_i, kappa_i>>, nxt[1], nxt[2])
    /\ UNCHANGED <<search, true_states, fit_pool, alignVars, simVars, moreVars>>

\* return best_labels, best_bac
Return ==
    /\ pc = "loop"
    /\ \/ search = "dense" /\ lam_i = NumLambdaValues
       \/ search = "sparse" /\ lam_i = NumLambdas
    /\ pc' = "done"
    /\ result' = Ok(<<best_labels, best_bac>>)
    /\ UNCHANGED <<search, true_states, fit_pool, lam_i, kappa_i, best_bac,
                   best_labels, evaluated, alignVars, simVars, moreVars>>

Next == DenseIteration \/ SparseIteration \/ Return

Spec == InitGrid /\ [][Next]_vars

\* ------------------------------------------------ properties of the grid search
\* the number of points of the grid being searched
GridSize == IF search = "dense" THEN NumLambdaValues ELSE NumLambdas * NumKappas

\* point k of the history scored at least as high as every point scored
IsArgmax(k) ==
    \A m \in DOMAIN evaluated : FracGeq(evaluated[k].bac, evaluated[m].bac)

\* point k of the history scored strictly higher than every other point
UniqueBest(k) ==
    \A m \in DOMAIN evaluated \ {k} : FracGreater(evaluated[k].bac, evaluated[m].bac)

\* the canonical enumeration order of grid points <<penalty index, cap index>>:
\* penalty outer, sparsity cap inner (the dense grid has cap index 0 throughout)
Before(p, q) == p[1] < q[1] \/ (p[1] = q[1] /\ p[2] < q[2])

\* C1: when the search returns and exactly one grid point has the strictly
\* highest score, the search returns that point's score as best_bac and that
\* point's labels as best_labels, wherever the point is in the grid.
C1_UniqueBestReturned ==
    pc = "done" =>
        /\ Len(evaluated) = GridSize
        /\ \A k \in DOMAIN evaluated :
               UniqueBest(k) =>
                   result = Ok(<<evaluated[k].labels, evaluated[k].bac>>)

\* C1 witness: a search returned whose unique best point is neither the first
\* nor the last of the grid
C1_Witness ==
    /\ pc = "done"
    /\ \E k \in DOMAIN evaluated :
           /\ UniqueBest(k)
           /\ 1 < k
           /\ k < Len(evaluated)
           /\ result = Ok(<<evaluated[k].labels, evaluated[k].bac>>)

\* C2: at every point of the search, the retained labels are those of the
\* grid point that comes first in the canonical order among the points of
\* maximal score scored so far: a later point of equal score never replaces it.
C2_FirstOfTiedKept ==
    \A k \in DOMAIN evaluated :
        (/\ IsArgmax(k)
         /\ \A m \in DOMAIN evaluated \ {k} :
                IsArgmax(m) => Before(evaluated[k].point, evaluated[m].point))
        => /\ best_labels = evaluated[k].labels
           /\ best_bac = evaluated[k].bac

\* C2 witness: a sparse search returned in which two points with different
\* labels tie for the best score, the earlier one at the larger cap index
C2_Witness ==
    /\ pc = "done"
    /\ search = "sparse"
    /\ \E k, m \in DOMAIN evaluated :
           /\ IsArgmax(k) /\ IsArgmax(m)
           /\ evaluated[k].point = <<0, 1>>
           /\ evaluated[m].point = <<1, 0>>
           /\ evaluated[k].labels # evaluated[m].labels
           /\ \A j \in DOMAIN evaluated : IsArgmax(j) => j >= k
           /\ result.val[1] = evaluated[k].labels

\* C8 as claimed: the search fails with ModelFitError only when the fit
\* failed at every grid point (a failed point being skipped otherwise).  The
\* search stops at the first failed fit, so one fit has failed when it raises.
C8_FailedFitSkipped ==
    result.err = "ModelFitError" => Len(evaluated) = 0 /\ GridSize = 1

\* C8 amended: a ModelFitError at a grid point ends the search at that point:
\* the search raises it with that point and the later ones unscored, also when
\* earlier points fitted; a result is returned only when every point fitted
\* and was scored.
C8_FitErrorPropagates ==
    /\ pc = "done" => result.err = "none" /\ Len(evaluated) = GridSize
    /\ result.err = "ModelFitError" =>
           /\ pc = "raised"
           /\ Len(evaluated) < GridSize
           /\ \A k \in DOMAIN evaluated :
                  Before(evaluated[k].point, <<lam_i, kappa_i>>)

\* C8 witness: the fit failed at a point after an earlier point had fitted
C8_Witness ==
    /\ pc = "raised"
    /\ result.err = "ModelFitError"
    /\ Len(evaluated) >= 1
    /\ best_labels # None

\* -------------------------------------------------- properties of the evaluator
\* the relabelings of the label identifiers
LabelPerms ==
    {f \in [Labels -> Labels] : \A x, y \in Labels : x # y => f[x] # f[y]}

Permute(f, pred) == [k \in DOMAIN pred |-> f[pred[k]]]

\* the number of positions at which two sequences of one length agree
Agreement(t, a) == Cardinality({k \in DOMAIN t : t[k] = a[k]})

\* the bijections of the joint label alphabet of the two sequences (the
\* alphabet of the padded, square confusion matrix)
AlphabetBijections ==
    LET A == Range(true_labels) \cup Range(pred_labels)
    IN  {g \in [A -> A] : \A x, y \in A : x # y => g[x] # g[y]}

\* C3 as claimed: the score does not change when the predicted labels are
\* renamed by a bijection of the label identifiers.
C3_PermutationInvariant ==
    pc = "scored" =>
        \A f \in LabelPerms :
            calculate_bac(true_labels, Permute(f, pred_labels)) = bac

\* C4 as claimed: aligning a sequence with itself returns the sequence,
\* whatever its label alphabet.
C4_SelfAlignIdentity ==
    (pc = "aligned" /\ pred_labels = true_labels) => aligned = Ok(true_labels)

\* C5 as claimed: for two sequences of one length the aligned prediction
\* agrees with the true labels at no fewer positions than the prediction
\* renamed by any bijection of the joint alphabet.
C5_AlignmentOptimal ==
    (pc = "aligned" /\ Len(true_labels) = Len(pred_labels)) =>
        /\ aligned.err = "none"
        /\ \A g \in AlphabetBijections :
               Agreement(true_labels, aligned.val)
                   >= Agreement(true_labels, Permute(g, pred_labels))

\* C6 as claimed: a non-empty sequence scored against itself scores 1.
C6_PerfectScore ==
    (pc = "scored" /\ pred_labels = true_labels /\ Len(true_labels) > 0) =>
        bac = Ok(<<1, 1>>)

\* C7 as claimed: when the true sequence holds a single class, calculate_bac
\* does not raise for a prediction of the same length with one or two classes,
\* and returns the fraction of positions whose aligned prediction is that class.
C7_SingleClassTrue ==
    (/\ pc = "scored"
     /\ Cardinality(Range(true_labels)) = 1
     /\ Len(pred_labels) = Len(true_labels)
     /\ Cardinality(Range(pred_labels)) <= 2) =>
        /\ bac.err = "none"
        /\ LET a == align_labels(true_labels, pred_labels)
           IN  /\ a.err = "none"
               /\ bac.val = Frac(Agreement(true_labels, a.val), Len(true_labels))

\* C9: when the two sequences differ in length, align_labels, and with it
\* calculate_bac, fails with an error (ValueError) and returns no sequence.
C9_LengthMismatchFails ==
    Len(true_labels) # Len(pred_labels) =>
        /\ pc = "aligned" => aligned = Raise("ValueError")
        /\ pc = "scored" => bac = Raise("ValueError")

\* C9 witness: align_labels was called on sequences of lengths 1 and 2 and failed
C9_Witness ==
    /\ pc = "aligned"
    /\ Len(true_labels) = 1
    /\ Len(pred_labels) = 2
    /\ aligned.err = "ValueError"

\* ---------------------------------------------------------------- simulate_data
\* transmat, in units of 1/10000
transmat == <<<<9980, 20>>, <<114, 9886>>>>
Scale == transmat[1][1] + transmat[1][2]

\* the stationary distribution of transmat (the eigenvector of transmat.T for
\* the eigenvalue 1, normalised to sum 1), as <<numerators, denominator>>
stat == <<<<transmat[2][1], transmat[1][2]>>, transmat[2][1] + transmat[1][2]>>

\* rng = np.random.default_rng(random_state): the generator's output is fixed
\* by the seed and the number of draws taken before.  Uniform is the draw in
\* [0, 1) behind rng.choice, in units of 1/Scale; Noise is a standard normal
\* draw, rounded to -1, 0 or 1.
Uniform(seed, pos) == (seed * 8600 + pos * 9985) % Scale
Noise(seed, pos) == ((seed + pos) % 3) - 1

\* rng.choice(np.arange(2), p=...): the first state whose cumulative
\* probability exceeds the uniform draw u/Scale; the probabilities are
\* num[k]/den
Choice(num, den, u) == IF u * den < num[1] * Scale THEN 0 ELSE 1

\* row[:stop] = value on a row indexed 0..P-1: a slice is clipped to the row
SliceAssign(row, stop, value) ==
    [j \in DOMAIN row |-> IF j < stop THEN value ELSE row[j]]

\* (a variant of DefineMeans: the cap of 15 informative features is dropped)
DefineMeansUncapped(p, m) ==
    LET zeros == [j \in 0..(p - 1) |-> 0]
    IN  <<SliceAssign(zeros, p, -m), SliceAssign(zeros, p, m)>>

\* means = np.zeros((2, P)); if P >= 15: means[0, :15] = -mu; means[1, :15] = mu
\* else: means[0, :P] = -mu; means[1, :P] = mu     (row k of means is means[k + 1])
DefineMeans(p, m) ==
    LET zeros == [j \in 0..(p - 1) |-> 0]
    IN  IF p >= InformativeFeatures
        THEN <<SliceAssign(zeros, InformativeFeatures, -m),
               SliceAssign(zeros, InformativeFeatures, m)>>
        ELSE <<SliceAssign(zeros, p, -m), SliceAssign(zeros, p, m)>>

MuValues == {1, 2}

\* (a variant of default_rng: the generator goes on from wherever numpy's
\* global random state stands)
default_rng_shared(seed) == <<seed, global_draws>>

\* rng = np.random.default_rng(random_state): a generator of the call's own,
\* as <<seed, number of draws taken>>
default_rng(seed) == <<seed, 0>>

InitSim ==
    /\ MoreIdle
    /\ pc = "initial state"
    /\ T \in 1..MaxT
    /\ P \in 0..MaxP
    /\ mu \in MuValues
    /\ random_state \in 0..MaxSeed
    /\ rng_pos = default_rng(random_state)[2]
    /\ states = <<>>
    /\ means = <<>>
    /\ X = <<>>
    /\ AlignIdle
    /\ GridIdle

\* states[0] = rng.choice(np.arange(2), p=stat)
SampleInitialState ==
    /\ pc = "initial state"
    /\ states' = <<Choice(stat[1], stat[2], Uniform(random_state, rng_pos))>>
    /\ rng_pos' = rng_pos + 1
    /\ pc' = "transitions"
    /\ UNCHANGED <<T, P, mu, random_state, means, X, alignVars, gridVars, moreVars>>

\* for t in range(1, T): states[t] = rng.choice(np.arange(2), p=transmat[states[t-1]])
SampleTransition ==
    /\ pc = "transitions"
    /\ Len(states) < T
    /\ states' = Append(states,
           Choice(transmat[states[Len(states)] + 1], Scale,
                  Uniform(random_state, rng_pos)))
    /\ rng_pos' = rng_pos + 1
    /\ UNCHANGED <<pc, T, P, mu, random_state, means, X, alignVars, gridVars, moreVars>>

\* the means of the two states, once the state sequence is complete
SetMeans ==
    /\ pc = "transitions"
    /\ Len(states) = T
    /\ means' = DefineMeans(P, mu)
    /\ pc' = "observations"
    /\ UNCHANGED <<T, P, mu, random_state, rng_pos, states, X, alignVars, gridVars, moreVars>>

\* for t in range(T): X[t] = rng.normal(loc=means[states[t]], scale=1.0, size=P)
DrawObservation ==
    /\ pc = "observations"
    /\ Len(X) < T
    /\ X' = Append(X, [j \in 0..(P - 1) |->
                          means[states[Len(X) + 1] + 1][j]
                              + Noise(random_state, rng_pos + j)])
    /\ rng_pos' = rng_pos + P
    /\ UNCHANGED <<pc, T, P, mu, random_state, states, means, alignVars, gridVars, moreVars>>

\* return X, states
ReturnData ==
    /\ pc = "observations"
    /\ Len(X) = T
    /\ pc' = "returned"
    /\ UNCHANGED <<simVars, alignVars, gridVars, moreVars>>

NextSim ==
    SampleInitialState \/ SampleTransition \/ SetMeans \/ DrawObservation
        \/ ReturnData

SpecSim == InitSim /\ [][NextSim]_vars

\* ------------------------------------------------- properties of simulate_data
Min(a, b) == IF a < b THEN a ELSE b

\* the coordinates at which the two state means carry the signal -mu / +mu
InformativeCoordinates ==
    {j \in DOMAIN means[1] : means[1][j] = -mu /\ means[2][j] = mu}

\* C10: for P >= 1, once the means are set, both rows are indexed 0..P-1,
\* exactly the coordinates 0..min(P,15)-1 carry -mu (state 0) and +mu
\* (state 1), and every other coordinate, so every one from 15 on, is 0 in
\* both rows.
C10_InformativeMeans ==
    (pc \in {"observations", "returned"} /\ P >= 1) =>
        /\ DOMAIN means[1] = 0..(P - 1)
        /\ DOMAIN means[2] = 0..(P - 1)
        /\ InformativeCoordinates = 0..(Min(P, InformativeFeatures) - 1)
        /\ Cardinality(InformativeCoordinates) = Min(P, InformativeFeatures)
        /\ \A j \in 0..(P - 1) :
               j >= Min(P, InformativeFeatures) => means[1][j] = 0 /\ means[2][j] = 0

\* C10 witness: the call returned for a P above 15, coordinate 14 informative
\* and coordinate 15 not
C10_Witness ==
    /\ pc = "returned"
    /\ P > InformativeFeatures
    /\ means[1][InformativeFeatures - 1] = -mu
    /\ means[2][InformativeFeatures - 1] = mu
    /\ means[1][InformativeFeatures] = 0
    /\ means[2][InformativeFeatures] = 0

\* C11: simulate_data called with P = 0 fails with an invalid-input error
\* and returns no (observation matrix, state path) pair: no call with P = 0
\* reaches its return statement.
C11_ZeroFeaturesRejected ==
    (P = 0) => pc # "returned"

\* ------------------------------------------ simulate_data called a second time
\* The call is repeated with the same (T, P, mu, random_state) while other
\* code draws from numpy's global random state.
MaxGlobalDraws == 2

InitRepeat ==
    /\ global_draws = 0
    /\ first_call = NoResult
    /\ pc = "initial state"
    /\ T \in 1..MaxT
    /\ P \in 0..MaxP
    /\ mu \in MuValues
    /\ random_state \in 0..MaxSeed
    /\ rng_pos = default_rng(random_state)[2]
    /\ states = <<>>
    /\ means = <<>>
    /\ X = <<>>
    /\ AlignIdle
    /\ GridIdle
    /\ OrderIdle
    /\ MainIdle

\* code outside simulate_data (the models' fits) takes a draw from the global
\* random state
DrawGlobal ==
    /\ global_draws < MaxGlobalDraws
    /\ global_draws' = global_draws + 1
    /\ UNCHANGED <<pc, first_call, simVars, alignVars, gridVars, orderVars, mainVars>>

\* X, true_states = simulate_data(T, P, mu, random_state=...) once more with
\* the same arguments; what the first call returned is kept for comparison
CallAgain ==
    /\ pc = "returned"
    /\ first_call = NoResult
    /\ first_call' = Ok(<<X, states, rng_pos>>)
    /\ pc' = "initial state"
    /\ rng_pos' = default_rng(random_state)[2]
    /\ states' = <<>>
    /\ means' = <<>>
    /\ X' = <<>>
    /\ UNCHANGED <<T, P, mu, random_state, global_draws, alignVars, gridVars,
                   orderVars, mainVars>>

NextRepeat == NextSim \/ DrawGlobal \/ CallAgain

SpecRepeat == InitRepeat /\ [][NextRepeat]_vars

\* C12: simulate_data is deterministic in its arguments.  The stream of the
\* generator seeded with random_state is consumed in a fixed order: draw 0
\* gives the initial state, draws 1..T-1 the transitions, and row t of X
\* takes the P draws from T + t*P on, only after the state path is complete;
\* a second call with the same (T, P, mu, random_state) returns the same
\* observation matrix and state path after the same number of draws, whatever
\* was drawn from the global random state in between.
C12_Deterministic ==
    /\ rng_pos = Len(states) + P * Len(X)
    /\ (X # <<>> => Len(states) = T)
    /\ (states # <<>> =>
           states[1] = Choice(stat[1], stat[2], Uniform(random_state, 0)))
    /\ \A k \in 2..Len(states) :
           states[k] = Choice(transmat[states[k - 1] + 1], Scale,
                              Uniform(random_state, k - 1))
    /\ \A t \in 1..Len(X) : \A j \in 0..(P - 1) :
           X[t][j] = means[states[t] + 1][j]
                         + Noise(random_state, T + (t - 1) * P + j)
    /\ ((pc = "returned" /\ first_call # NoResult) =>
           first_call = Ok(<<X, states, rng_pos>>))

\* C12 witness: the second call returned a path of two states and rows of at
\* least one feature, after draws from the global random state
C12_Witness ==
    /\ pc = "returned"
    /\ first_call # NoResult
    /\ global_draws > 0
    /\ Len(states) >= 2
    /\ P >= 1
    /\ Len(X) = T

\* ------------------------------------------- the sentinel of the grid searches
\* the scores of the grid points evaluated so far
ScoresSoFar == {evaluated[k].bac : k \in 1..Len(evaluated)}

\* once a grid point has been scored: best_bac is in [0, 1], best_labels is
\* not None, and best_bac is the maximum of the scores evaluated so far
BestIsRunningMax ==
    evaluated # <<>> =>
        /\ FracGeq(best_bac, <<0, 1>>)
        /\ FracGeq(<<1, 1>>, best_bac)
        /\ best_labels # None
        /\ best_bac \in ScoresSoFar
        /\ \A b \in ScoresSoFar : FracGeq(best_bac, b)

\* C13: the -1 sentinel is beaten by the first grid point: after the first
\* iteration and in every later state best_bac is in [0, 1], best_labels is
\* not None and best_bac equals the maximum of the scores evaluated so far;
\* best_bac never decreases from one state to the next.
C13_SentinelBeaten ==
    /\ []BestIsRunningMax
    /\ [][FracGeq(best_bac', best_bac)]_vars

\* C13 witness: a finished search whose first point scored below the best and
\* whose last point scored below the best too
C13_Witness ==
    /\ pc = "done"
    /\ Len(evaluated) >= 3
    /\ FracGreater(best_bac, evaluated[1].bac)
    /\ FracGreater(best_bac, evaluated[Len(evaluated)].bac)

\* ------------------------------------- the grid searches in another loop order
\* The lists lambda_values, lambdas and kappas are enumerated in an order
\* other than the ascending one; a grid point is <<penalty index, cap index>>.

\* for lam in lambda_values, the list in ascending order
DenseOrder == [i \in 1..NumLambdaValues |-> <<i - 1, 0>>]

\* the dense grid with lambda_values in any order
DenseOrders ==
    {[i \in 1..NumLambdaValues |-> DenseOrder[f[i]]] :
        f \in {g \in [1..NumLambdaValues -> 1..NumLambdaValues] :
                  \A i, j \in 1..NumLambdaValues : g[i] = g[j] => i = j}}

\* for lam in lambdas: for kappa in kappas, with either list ascending or
\* descending (revL, revK) and either loop outside (kappaOuter)
SparseOrderOf(revL, revK, kappaOuter) ==
    [i \in 1..(NumLambdas * NumKappas) |->
        LET inner == IF kappaOuter THEN NumLambdas ELSE NumKappas
            a == (i - 1) \div inner
            b == (i - 1) % inner
            l == IF kappaOuter THEN b ELSE a
            k == IF kappaOuter THEN a ELSE b
        IN  <<IF revL THEN NumLambdas - 1 - l ELSE l,
              IF revK THEN NumKappas - 1 - k ELSE k>>]

SparseOrder == SparseOrderOf(FALSE, FALSE, FALSE)

SparseOrders ==
    {SparseOrderOf(revL, revK, kappaOuter) :
        revL \in BOOLEAN, revK \in BOOLEAN, kappaOuter \in BOOLEAN}

\* the label sequences the model may hold: in the dense search any of a pool,
\* in the sparse search (with its larger grid) any two of a pool
OrderPools(s, t) ==
    IF s = "dense" THEN {Pool(t, c) : c \in States}
    ELSE UNION {{S \in SUBSET Pool(t, c) : Cardinality(S) = 2} : c \in States}

InitOrder ==
    /\ pc = "loop"
    /\ search \in {"dense", "sparse"}
    /\ order \in IF search = "dense" THEN DenseOrders ELSE SparseOrders
    /\ true_states \in StateSeqs
    /\ fit_pool \in OrderPools(search, true_states)
    /\ lam_i = order[1][1]
    /\ kappa_i = order[1][2]
    /\ best_bac = InitialBest
    /\ best_labels = None
    /\ evaluated = <<>>
    /\ result = NoResult
    /\ AlignIdle
    /\ SimIdle
    /\ RepeatIdle
    /\ MainIdle

\* one pass of the loop (of the inner loop, in the sparse search) at the next
\* point of the order; after the last pass the loop variables keep their values
OrderedIteration ==
    /\ pc = "loop"
    /\ Len(evaluated) < Len(order)
    /\ LET pos == Len(evaluated) + 1
           nxt == IF pos < Len(order) THEN order[pos + 1] ELSE order[pos]
       IN  \E outcome \in FitOutcomes : LoopBody(outcome, order[pos], nxt[1], nxt[2])
    /\ UNCHANGED <<search, true_states, fit_pool, alignVars, simVars, moreVars>>

\* return best_labels, best_bac
ReturnOrdered ==
    /\ pc = "loop"
    /\ Len(evaluated) = Len(order)
    /\ pc' = "done"
    /\ result' = Ok(<<best_labels, best_bac>>)
    /\ UNCHANGED <<search, true_states, fit_pool, lam_i, kappa_i, best_bac,
                   best_labels, evaluated, alignVars, simVars, moreVars>>

NextOrder == OrderedIteration \/ ReturnOrdered

SpecOrder == InitOrder /\ [][NextOrder]_vars

\* -------------------------------------------- properties of the loop order
\* the loops of the code as written: ascending lists, penalty loop outside
CanonicalOrder == IF search = "dense" THEN DenseOrder ELSE SparseOrder

\* the history of a finished search, rearranged into the canonical order
CanonicalHistory ==
    [i \in 1..Len(CanonicalOrder) |->
        CHOOSE r \in Range(evaluated) : r.point = CanonicalOrder[i]]

\* <<best_labels, best_bac>> after the passes k.. over the scored points h,
\* starting from `best`
RECURSIVE BestOf(_, _, _)
BestOf(h, k, best) ==
    IF k > Len(h) THEN best
    ELSE BestOf(h, k + 1, Retain(h[k].labels, h[k].bac, best[1], best[2]))

\* what the search returns on the same scored points in the canonical order
CanonicalBest == BestOf(CanonicalHistory, 1, <<None, InitialBest>>)

\* C14 (as stated): the order in which the grid points are enumerated has no
\* effect on the result: with each point's score fixed, the search returns
\* the same best score and the same labels as in the canonical order.
C14_OrderIrrelevant ==
    pc = "done" => result = Ok(CanonicalBest)

\* C14 (amended): with each point's score fixed, the search returns the same
\* best score in every enumeration order, and labels of a point that attains
\* that score; the labels are the same as in the canonical order whenever all
\* points attaining the best score hold the same labels.
C14_ScoreOrderIrrelevant ==
    pc = "done" =>
        /\ Len(evaluated) = Len(order)
        /\ result.val[2] = CanonicalBest[2]
        /\ \E k \in DOMAIN evaluated :
               IsArgmax(k) /\ evaluated[k].labels = result.val[1]
        /\ (\A j, k \in DOMAIN evaluated :
               (IsArgmax(j) /\ IsArgmax(k)) => evaluated[j].labels = evaluated[k].labels)
           => result.val[1] = CanonicalBest[1]

\* C14 witness: a search in a non-canonical order returned; some point scored
\* below the best, the best score is that of the canonical order, the labels
\* are not
C14_Witness ==
    /\ pc = "done"
    /\ order # CanonicalOrder
    /\ \E k \in DOMAIN evaluated : ~IsArgmax(k)
    /\ result.val[2] = CanonicalBest[2]
    /\ result.val[1] # CanonicalBest[1]

\* ---------------------------------------------------------------- __main__
\* simulate_data as one step: the state path and the rows that the steps of
\* SpecSim build for the arguments (t, p, m, seed)
RECURSIVE StatePath(_, _)
StatePath(n, seed) ==
    IF n = 1 THEN <<Choice(stat[1], stat[2], Uniform(seed, 0))>>
    ELSE LET prev == StatePath(n - 1, seed)
         IN  Append(prev, Choice(transmat[prev[n - 1] + 1], Scale,
                                 Uniform(seed, n - 1)))

simulate_data(t, p, m, seed) ==
    LET path == StatePath(t, seed)
        mns == DefineMeans(p, m)
    IN  <<[r \in 1..t |-> [j \in 0..(p - 1) |->
              mns[path[r] + 1][j] + Noise(seed, t + (r - 1) * p + j)]],
          path>>

\* T, mu_values, p_values, n_simulations of the experiment
ExperimentT == MaxT
mu_values == SortedSeq(MuValues)
p_values == <<InformativeFeatures, InformativeFeatures + 1>>
n_simulations == 2

\* for mu in mu_values: for P in p_values, as <<mu, P>> in loop order
Configs ==
    [i \in 1..(Len(mu_values) * Len(p_values)) |->
        <<mu_values[((i - 1) \div Len(p_values)) + 1],
          p_values[((i - 1) % Len(p_values)) + 1]>>]

\* what a model fitted on the trial's X may hold for the true path t
MainOutcomes(t) ==
    {Raise("ModelFitError")} \cup {Ok(l) : l \in UNION {Pool(t, c) : c \in States}}

\* the score a grid search of n points returns when the model holds the
\* labels `labels`, scored b, at each of them
SearchScore(labels, b, n) ==
    BestOf([i \in 1..n |-> [labels |-> labels, bac |-> b]], 1,
           <<None, InitialBest>>)[2]

\* a list entry: the score, and with it the dataset the model was given
Entry(b) == [bac |-> b, data |-> <<X, true_states>>]

\* (a variant of TrialSeed: every trial uses the seed 0)
TrialSeedFixed(trial) == 0

\* random_state=sim
TrialSeed(trial) == trial

InitMain ==
    /\ pc = "simulate"
    /\ cfg_i = 1
    /\ sim = 0
    /\ hmm_bac_list = <<>>
    /\ jump_bac_list = <<>>
    /\ sparse_bac_list = <<>>
    /\ final_rows = <<>>
    /\ T = ExperimentT
    /\ mu = Configs[1][1]
    /\ P = Configs[1][2]
    /\ X = <<>>
    /\ true_states = <<>>
    /\ random_state = 0
    /\ rng_pos = 0
    /\ states = <<>>
    /\ means = <<>>
    /\ search = ""
    /\ fit_pool = {}
    /\ lam_i = 0
    /\ kappa_i = 0
    /\ best_bac = InitialBest
    /\ best_labels = None
    /\ evaluated = <<>>
    /\ result = NoResult
    /\ AlignIdle
    /\ RepeatIdle
    /\ OrderIdle

\* what the steps of a trial leave alone
mainFrame ==
    <<T, P, mu, random_state, rng_pos, states, means, search, fit_pool, lam_i,
      kappa_i, best_bac, best_labels, evaluated, cfg_i, final_rows, alignVars,
      repeatVars, orderVars>>

\* X, true_states = simulate_data(T, P, mu, random_state=sim)
Simulate ==
    /\ pc = "simulate"
    /\ \E d \in {simulate_data(T, P, mu, TrialSeed(sim))} :
           /\ X' = d[1]
           /\ true_states' = d[2]
    /\ pc' = "hmm"
    /\ UNCHANGED <<sim, hmm_bac_list, jump_bac_list, sparse_bac_list, result, mainFrame>>

\* pred_hmm = run_hmm(...); bac_hmm = calculate_bac(true_states, pred_hmm);
\* hmm_bac_list.append(bac_hmm)
RunHmm ==
    /\ pc = "hmm"
    /\ \E o \in MainOutcomes(true_states) :
       \E b \in {IF o.err = "none" THEN calculate_bac(true_states, o.val) ELSE o} :
           IF b.err # "none"
           THEN /\ pc' = "raised"
                /\ result' = b
                /\ UNCHANGED hmm_bac_list
           ELSE /\ hmm_bac_list' = Append(hmm_bac_list, Entry(b.val))
                /\ pc' = "jump"
                /\ UNCHANGED result
    /\ UNCHANGED <<X, true_states, sim, jump_bac_list, sparse_bac_list, mainFrame>>

\* _, bac_jump = run_jump_model_grid_search(X, true_states, ...);
\* jump_bac_list.append(bac_jump)
RunJump ==
    /\ pc = "jump"
    /\ \E o \in MainOutcomes(true_states) :
       \E b \in {IF o.err = "none" THEN calculate_bac(true_states, o.val) ELSE o} :
           IF b.err # "none"
           THEN /\ pc' = "raised"
                /\ result' = b
                /\ UNCHANGED jump_bac_list
           ELSE /\ jump_bac_list' = Append(jump_bac_list,
                       Entry(SearchScore(o.val, b.val, NumLambdaValues)))
                /\ pc' = "sparse"
                /\ UNCHANGED result
    /\ UNCHANGED <<X, true_states, sim, hmm_bac_list, sparse_bac_list, mainFrame>>

\* _, bac_sparse = run_sparse_jump_model_grid_search(X, true_states, ...);
\* sparse_bac_list.append(bac_sparse); the trial is complete
RunSparse ==
    /\ pc = "sparse"
    /\ \E o \in MainOutcomes(true_states) :
       \E b \in {IF o.err = "none" THEN calculate_bac(true_states, o.val) ELSE o} :
           IF b.err # "none"
           THEN /\ pc' = "raised"
                /\ result' = b
                /\ UNCHANGED <<sparse_bac_list, sim>>
           ELSE /\ sparse_bac_list' = Append(sparse_bac_list,
                       Entry(SearchScore(o.val, b.val, NumLambdas * NumKappas)))
                /\ sim' = sim + 1
                /\ pc' = IF sim + 1 < n_simulations THEN "simulate" ELSE "test"
                /\ UNCHANGED result
    /\ UNCHANGED <<X, true_states, hmm_bac_list, jump_bac_list, mainFrame>>

\* stats.ttest_rel(jump_bac_list, sparse_bac_list) (ValueError on lists of
\* unequal length); final_rows.append(...), the row reduced to mu, P and the
\* number of pairs; then the next (mu, P) with three empty lists
PairedTest ==
    /\ pc = "test"
    /\ IF Len(jump_bac_list) # Len(sparse_bac_list)
       THEN /\ pc' = "raised"
            /\ result' = Raise("ValueError")
            /\ UNCHANGED <<cfg_i, sim, mu, P, hmm_bac_list, jump_bac_list,
                           sparse_bac_list, final_rows>>
       ELSE /\ final_rows' = Append(final_rows,
                   [mu |-> mu, P |-> P, pairs |-> Len(jump_bac_list)])
            /\ UNCHANGED result
            /\ IF cfg_i < Len(Configs)
               THEN /\ cfg_i' = cfg_i + 1
                    /\ mu' = Configs[cfg_i + 1][1]
                    /\ P' = Configs[cfg_i + 1][2]
                    /\ hmm_bac_list' = <<>>
                    /\ jump_bac_list' = <<>>
                    /\ sparse_bac_list' = <<>>
                    /\ sim' = 0
                    /\ pc' = "simulate"
               ELSE /\ pc' = "finished"
                    /\ UNCHANGED <<cfg_i, sim, mu, P, hmm_bac_list, jump_bac_list,
                                   sparse_bac_list>>
    /\ UNCHANGED <<X, true_states, T, random_state, rng_pos, states, means, search,
                   fit_pool, lam_i, kappa_i, best_bac, best_labels, evaluated,
                   alignVars, repeatVars, orderVars>>

NextMain == Simulate \/ RunHmm \/ RunJump \/ RunSparse \/ PairedTest

SpecMain == InitMain /\ [][NextMain]_vars

\* ---------------------------------------------- properties of the experiment
\* every entry of the list was computed from the dataset of its own trial:
\* entry i from simulate_data(T, P, mu, random_state = i - 1)
FromOwnTrial(list) ==
    \A i \in 1..Len(list) : list[i].data = simulate_data(T, P, mu, i - 1)

\* C15: for each (mu, P) the three per-seed score lists stay paired: after
\* every completed trial (at the head of the trial loop and at the paired
\* test) the three lists have the same length, the number of completed
\* trials; entry i of each list was computed from the one dataset generated
\* with seed i - 1 (0-based: seed i), the same for the three models; and when
\* the paired test runs each list has exactly n_simulations entries.
C15_ListsPaired ==
    /\ pc \in {"simulate", "test"} =>
           /\ Len(hmm_bac_list) = sim
           /\ Len(jump_bac_list) = sim
           /\ Len(sparse_bac_list) = sim
    /\ FromOwnTrial(hmm_bac_list)
    /\ FromOwnTrial(jump_bac_list)
    /\ FromOwnTrial(sparse_bac_list)
    /\ pc = "test" =>
           /\ Len(hmm_bac_list) = n_simulations
           /\ Len(jump_bac_list) = n_simulations
           /\ Len(sparse_bac_list) = n_simulations
    /\ \A r \in Range(final_rows) : r.pairs = n_simulations

\* C15 witness: the paired test of the second configuration is about to run
\* on full lists whose trials were generated from different state paths
C15_Witness ==
    /\ pc = "test"
    /\ cfg_i = 2
    /\ Len(final_rows) = 1
    /\ Len(sparse_bac_list) = n_simulations
    /\ sparse_bac_list[1].data # sparse_bac_list[2].data
    /\ jump_bac_list[1].bac # sparse_bac_list[1].bac

====
